---- MODULE Spec2Model ----
(***************************************************************************)
(* A model of framehop's DWARF-CFI frame step for x86_64                   *)
(* (src/src/x86_64/dwarf.rs), of the FDE row selection of                  *)
(* src/src/unwinders/dwarf/unwinder.rs and of the module registry / rule   *)
(* cache behind the Unwinder trait (src/src/aarch64/unwinder.rs).          *)
(*                                                                         *)
(* Values of type u64 / i64 are modelled as integers.  Where the code      *)
(* performs an unchecked unsigned subtraction the model detects the        *)
(* underflow explicitly and branches over what the build can produce (a    *)
(* panic with overflow checks, a wrapped address without).  A wrapped      *)
(* address 2^64 + d (d < 0) is represented by the negative integer d.      *)
(***************************************************************************)
EXTENDS Integers, Sequences, FiniteSets, TLC

VARIABLES
    pc,        \* position of the driver of the current specification
    row,       \* the UnwindTableRow handed to unwind_frame (cfa, RBP, RA rules)
    regs,      \* UnwindRegsX86_64: ip, sp, bp
    pre,       \* the registers before the step (history)
    kind,      \* FrameAddress tag: "InstructionPointer" (leaf) or "ReturnAddress"
    mem,       \* the memory behind read_mem: address -> word, partial
    res,       \* outcome of the last frame step
    address,   \* the code address of the frame being unwound
    modules,   \* registry: set of modules [start, len, content]
    cache,     \* rule cache: set of [start, offset, rule]
    lookup,    \* record of the last module / FDE / row selection
    visited    \* walk: the caller states <<regs, address, kind>> already stepped from

vars == <<pc, row, regs, pre, kind, mem, res, address, modules, cache, lookup, visited>>

-----------------------------------------------------------------------------
(* Option<u64> and the rule datatypes of gimli used by the code.           *)

None == [some |-> FALSE, val |-> 0]
Some(v) == [some |-> TRUE, val |-> v]

Undefined == [kind |-> "Undefined", offset |-> 0, register |-> "-"]
SameValue == [kind |-> "SameValue", offset |-> 0, register |-> "-"]
Offset(o) == [kind |-> "Offset", offset |-> o, register |-> "-"]
Register(r) == [kind |-> "Register", offset |-> 0, register |-> r]

RegisterAndOffset(r, o) == [kind |-> "RegisterAndOffset", register |-> r, offset |-> o]
\* A location expression; the model carries what evaluating it yields.
Expression(v) == [kind |-> "Expression", register |-> "-", offset |-> v]

OffsetSp(n) ==
    [kind |-> "OffsetSp", sp_offset_by_8 |-> n, bp_storage_offset_from_sp_by_8 |-> 0]
OffsetSpAndRestoreBp(n, m) ==
    [kind |-> "OffsetSpAndRestoreBp", sp_offset_by_8 |-> n,
     bp_storage_offset_from_sp_by_8 |-> m]
UseFramePointer ==
    [kind |-> "UseFramePointer", sp_offset_by_8 |-> 0, bp_storage_offset_from_sp_by_8 |-> 0]
NoRule == [kind |-> "-", sp_offset_by_8 |-> 0, bp_storage_offset_from_sp_by_8 |-> 0]

\* Rust's integer division truncates toward zero (TLA+'s \div floors).
TruncDiv(a, b) == IF a >= 0 THEN a \div b ELSE -((-a) \div b)

U16Max == 65535
I8Min == -128
I8Max == 127

\* u16::try_from / i8::try_from
FitsU16(n) == n >= 0 /\ n <= U16Max
FitsI8(n) == n >= I8Min /\ n <= I8Max

-----------------------------------------------------------------------------
(* read_mem: the caller's fallible one-word read.                          *)

read_mem(m, a) == IF a \in DOMAIN m THEN [ok |-> TRUE, val |-> m[a]]
                                    ELSE [ok |-> FALSE, val |-> 0]

\* impl DwarfUnwindRegs for UnwindRegsX86_64
Get(r, register) ==
    CASE register = "RA" -> Some(r.ip)
      [] register = "RSP" -> Some(r.sp)
      [] register = "RBP" -> Some(r.bp)
      [] OTHER -> None

-----------------------------------------------------------------------------
(* The rule translator.                                                    *)

ConvOk(v) == [ok |-> TRUE, some |-> v.some, val |-> v.val, err |-> "-"]
ConvErr(e) == [ok |-> FALSE, some |-> FALSE, val |-> 0, err |-> e]

register_rule_to_cfa_offset(rule) ==
    CASE rule.kind \in {"Undefined", "SameValue"} -> ConvOk(None)
      [] rule.kind = "Offset" -> ConvOk(Some(rule.offset))
      [] OTHER -> ConvErr("RegisterNotStoredRelativeToCfa")

RuleOk(r) == [ok |-> TRUE, rule |-> r, err |-> "-"]
RuleErr(e) == [ok |-> FALSE, rule |-> NoRule, err |-> e]

\* match ra_rule { ... }: "-" when the return-address rule is acceptable.
ra_rule_check(ra_rule) ==
    CASE ra_rule.kind = "Undefined" -> "-"
      [] ra_rule.kind = "Offset" ->
            IF ra_rule.offset = -8 THEN "-" ELSE "ReturnAddressRuleWithUnexpectedOffset"
      [] OTHER -> "ReturnAddressRuleWasWeird"

\* u16::try_from(offset / 8)
sp_offset_by_8_of(offset) == TruncDiv(offset, 8)

\* the X86_64::RSP arm
translate_rsp(offset, bp_rule) ==
    LET sp_offset_by_8 == sp_offset_by_8_of(offset)
        fp_cfa_offset == register_rule_to_cfa_offset(bp_rule)
    IN  IF ~FitsU16(sp_offset_by_8) THEN RuleErr("SpOffsetDoesNotFit")
        ELSE IF ~fp_cfa_offset.ok THEN RuleErr(fp_cfa_offset.err)
        ELSE IF ~fp_cfa_offset.some THEN RuleOk(OffsetSp(sp_offset_by_8))
        ELSE LET bp_storage_offset_from_sp_by_8 ==
                     TruncDiv(offset + fp_cfa_offset.val, 8)
             IN  IF ~FitsI8(bp_storage_offset_from_sp_by_8)
                 THEN RuleErr("FpStorageOffsetDoesNotFit")
                 ELSE RuleOk(OffsetSpAndRestoreBp(sp_offset_by_8,
                                                  bp_storage_offset_from_sp_by_8))

\* the X86_64::RBP arm
translate_rbp(offset, bp_rule) ==
    LET bp_cfa_offset == register_rule_to_cfa_offset(bp_rule)
    IN  IF ~bp_cfa_offset.ok THEN RuleErr(bp_cfa_offset.err)
        ELSE IF ~bp_cfa_offset.some THEN RuleErr("FramePointerRuleDoesNotRestoreBp")
        ELSE IF offset = 16 /\ bp_cfa_offset.val = -16 THEN RuleOk(UseFramePointer)
        ELSE RuleErr("FramePointerRuleHasStrangeBpOffset")

\* a slip: the RSP and RBP arms of the match are swapped
translate_into_unwind_rule_swapped(cfa_rule, bp_rule, ra_rule) ==
    IF ra_rule_check(ra_rule) # "-" THEN RuleErr(ra_rule_check(ra_rule))
    ELSE CASE cfa_rule.kind = "Expression" -> RuleErr("CfaIsExpression")
           [] cfa_rule.kind = "RegisterAndOffset" /\ cfa_rule.register = "RBP" ->
                 translate_rsp(cfa_rule.offset, bp_rule)
           [] cfa_rule.kind = "RegisterAndOffset" /\ cfa_rule.register = "RSP" ->
                 translate_rbp(cfa_rule.offset, bp_rule)
           [] OTHER -> RuleErr("CfaIsOffsetFromUnknownRegister")

translate_into_unwind_rule(cfa_rule, bp_rule, ra_rule) ==
    IF ra_rule_check(ra_rule) # "-" THEN RuleErr(ra_rule_check(ra_rule))
    ELSE CASE cfa_rule.kind = "Expression" -> RuleErr("CfaIsExpression")
           [] cfa_rule.kind = "RegisterAndOffset" /\ cfa_rule.register = "RSP" ->
                 translate_rsp(cfa_rule.offset, bp_rule)
           [] cfa_rule.kind = "RegisterAndOffset" /\ cfa_rule.register = "RBP" ->
                 translate_rbp(cfa_rule.offset, bp_rule)
           [] OTHER -> RuleErr("CfaIsOffsetFromUnknownRegister")

-----------------------------------------------------------------------------
(* Full evaluation of the rules (crate::dwarf::eval_cfa_rule and           *)
(* eval_register_rule; their callers in x86_64/dwarf.rs fix the Option     *)
(* result type).                                                           *)

eval_cfa_rule(rule, r) ==
    IF rule.kind = "Expression"
    THEN IF rule.offset >= 0 THEN Some(rule.offset) ELSE None
    ELSE LET val == Get(r, rule.register)
         IN  IF ~val.some \/ val.val + rule.offset < 0 THEN None
             ELSE Some(val.val + rule.offset)

EvalNone(failed) == [some |-> FALSE, val |-> 0, read_failed |-> failed]
EvalSome(v) == [some |-> TRUE, val |-> v, read_failed |-> FALSE]

eval_register_rule(rule, cfa, val, r, m) ==
    CASE rule.kind = "Undefined" -> EvalNone(FALSE)
      [] rule.kind = "SameValue" -> EvalSome(val)
      [] rule.kind = "Offset" ->
            IF cfa + rule.offset < 0 THEN EvalNone(FALSE)
            ELSE IF read_mem(m, cfa + rule.offset).ok
                 THEN EvalSome(read_mem(m, cfa + rule.offset).val)
                 ELSE EvalNone(TRUE)
      [] OTHER ->
            IF Get(r, rule.register).some THEN EvalSome(Get(r, rule.register).val)
            ELSE EvalNone(FALSE)

-----------------------------------------------------------------------------
(* Outcome of a frame step.  tag: "ExecRule" (a compact rule was returned  *)
(* and not yet applied), "Ok" (a return address was returned, registers    *)
(* updated), "Err", "Panic" (arithmetic overflow abort).                   *)

BaseRes(r) ==
    [tag |-> "-", path |-> "-", err |-> "-", ra |-> 0, rule |-> NoRule, regs |-> r,
     cfa |-> None, retaddr |-> None,
     bp_read_failed |-> FALSE, ra_read_failed |-> FALSE, slot_read_failed |-> FALSE,
     underflow |-> FALSE]

\* a slip: the return address compared with the stack pointer
did_not_advance_wrong_register(cfa, sp, return_address, ip) ==
    cfa = sp /\ return_address = sp

\* if cfa == sp && return_address == ip
did_not_advance(cfa, sp, return_address, ip) == cfa = sp /\ return_address = ip

\* a slip: the frame's tag is not consulted
moved_backwards_any_frame(address_kind, cfa, sp) == cfa < sp

\* if address.is_return_address() && cfa < regs.sp()
moved_backwards(address_kind, cfa, sp) == address_kind = "ReturnAddress" /\ cfa < sp

\* Lines 49-77: the full-evaluation path of unwind_frame.  wrap: the build
\* wraps on unsigned overflow (no overflow checks) instead of panicking.
full_evaluation(unwind_info, r, address_kind, m, wrap) ==
    LET cfa_o == eval_cfa_rule(unwind_info.cfa, r)
        cfa == cfa_o.val
        ip == r.ip
        bp == r.bp
        sp == r.sp
        bp_e == eval_register_rule(unwind_info.bp, cfa, bp, r, m)
        new_bp == IF bp_e.some THEN bp_e.val ELSE bp
        ra_e == eval_register_rule(unwind_info.ra, cfa, ip, r, m)
        underflow == ~ra_e.some /\ cfa < 8
        slot == read_mem(m, cfa - 8)
        return_address == IF ra_e.some THEN ra_e.val ELSE slot.val
        base == [BaseRes(r) EXCEPT !.path = "fallback", !.cfa = cfa_o,
                                   !.bp_read_failed = bp_e.read_failed,
                                   !.ra_read_failed = ra_e.read_failed,
                                   !.underflow = underflow]
    IN  IF ~cfa_o.some
        THEN [BaseRes(r) EXCEPT !.path = "fallback", !.tag = "Err",
                                !.err = "CouldNotRecoverCfa"]
        ELSE IF underflow /\ ~wrap
        THEN [base EXCEPT !.tag = "Panic"]
        ELSE IF ~ra_e.some /\ ~slot.ok
        THEN [base EXCEPT !.tag = "Err", !.err = "CouldNotRecoverReturnAddress",
                          !.slot_read_failed = TRUE]
        ELSE IF did_not_advance(cfa, sp, return_address, ip)
        THEN [base EXCEPT !.tag = "Err", !.err = "DidNotAdvance",
                          !.retaddr = Some(return_address)]
        ELSE IF moved_backwards(address_kind, cfa, sp)
        THEN [base EXCEPT !.tag = "Err", !.err = "StackPointerMovedBackwards",
                          !.retaddr = Some(return_address)]
        ELSE [base EXCEPT !.tag = "Ok", !.ra = return_address,
                          !.retaddr = Some(return_address),
                          !.regs = [ip |-> return_address, sp |-> cfa, bp |-> new_bp]]

\* DwarfUnwinding::unwind_frame for ArchX86_64
unwind_frame(unwind_info, r, address_kind, m, wrap) ==
    LET t == translate_into_unwind_rule(unwind_info.cfa, unwind_info.bp, unwind_info.ra)
    IN  IF t.ok
        THEN [BaseRes(r) EXCEPT !.tag = "ExecRule", !.path = "compact", !.rule = t.rule]
        ELSE full_evaluation(unwind_info, r, address_kind, m, wrap)

-----------------------------------------------------------------------------
(* Applying a compact rule (UnwindRuleX86_64, executed by the engine on an *)
(* ExecRule result or on a cache hit).                                     *)

rule_cfa(rule, r) ==
    IF rule.kind = "UseFramePointer" THEN r.bp + 16
    ELSE r.sp + 8 * rule.sp_offset_by_8

\* where the caller's frame pointer is saved; None: the rule leaves bp alone
rule_bp_location(rule, r) ==
    CASE rule.kind = "UseFramePointer" -> Some(r.bp)
      [] rule.kind = "OffsetSpAndRestoreBp" ->
            Some(r.sp + 8 * rule.bp_storage_offset_from_sp_by_8)
      [] OTHER -> None

exec_rule(rule, r, address_kind, m) ==
    LET cfa == rule_cfa(rule, r)
        loc == rule_bp_location(rule, r)
        bp_r == read_mem(m, loc.val)
        new_bp == IF loc.some THEN bp_r.val ELSE r.bp
        slot == read_mem(m, cfa - 8)
        base == [BaseRes(r) EXCEPT !.path = "compact", !.rule = rule, !.cfa = Some(cfa)]
    IN  IF loc.some /\ ~bp_r.ok
        THEN [base EXCEPT !.tag = "Err", !.err = "CouldNotReadBp",
                          !.bp_read_failed = TRUE]
        ELSE IF cfa < 8 \/ ~slot.ok
        THEN [base EXCEPT !.tag = "Err", !.err = "CouldNotRecoverReturnAddress",
                          !.slot_read_failed = TRUE]
        ELSE IF did_not_advance(cfa, r.sp, slot.val, r.ip)
        THEN [base EXCEPT !.tag = "Err", !.err = "DidNotAdvance",
                          !.retaddr = Some(slot.val)]
        ELSE IF moved_backwards(address_kind, cfa, r.sp)
        THEN [base EXCEPT !.tag = "Err", !.err = "StackPointerMovedBackwards",
                          !.retaddr = Some(slot.val)]
        ELSE [base EXCEPT !.tag = "Ok", !.ra = slot.val, !.retaddr = Some(slot.val),
                          !.regs = [ip |-> slot.val, sp |-> cfa, bp |-> new_bp]]

\* One frame step as the engine performs it on a cache miss: evaluate the row,
\* and apply the compact rule when one was produced.
frame_step(unwind_info, r, address_kind, m, wrap) ==
    LET u == unwind_frame(unwind_info, r, address_kind, m, wrap)
    IN  IF u.tag = "ExecRule" THEN exec_rule(u.rule, r, address_kind, m) ELSE u

-----------------------------------------------------------------------------
(* Specification Spec: one frame step on inputs drawn from bounded sets.   *)

CfaOffsets == {-8, -4, 0, 8, 12, 16, 1032, 1040, 8 * U16Max, 8 * U16Max + 8}

CfaRules ==
    {RegisterAndOffset(r, o) : r \in {"RSP", "RBP", "RAX"}, o \in CfaOffsets}
        \cup {Expression(12320)}

BpRules == {Undefined, SameValue, Offset(-16), Offset(-24), Register("RAX")}
RaRules == {Undefined, SameValue, Offset(-8), Offset(-16), Register("RBP")}

Rows == [cfa : CfaRules, bp : BpRules, ra : RaRules]

\* 0x2000 = 8192, 0x2100 = 8448, 0x3000 = 12288, 0x3010 = 12304, 0x3020 = 12320
RegsSet == [ip : {8192, 8448}, sp : {0, 12288, 12320}, bp : {0, 12288, 12304}]

Kinds == {"InstructionPointer", "ReturnAddress"}

\* 0x3018 = 12312, 0x3050 = 12368
MemEmpty == [a \in {} |-> 0]
MemChainAt3000 == [a \in {12312, 12288} |-> IF a = 12312 THEN 8448 ELSE 12368]
MemChainAt3010 == [a \in {12312, 12304} |-> IF a = 12312 THEN 8448 ELSE 12368]
MemDense ==
    [a \in {-8, 12280, 12288, 12292, 12296, 12304, 12312} |->
        CASE a = -8 -> 8448
          [] a = 12280 -> 8192
          [] a = 12288 -> 12368
          [] a = 12292 -> 8448
          [] a = 12296 -> 8448
          [] a = 12304 -> 12368
          [] a = 12312 -> 8448]
Mems == {MemEmpty, MemChainAt3000, MemChainAt3010, MemDense}

IdleRes == BaseRes([ip |-> 0, sp |-> 0, bp |-> 0])
IdleLookup ==
    [frame |-> 0, kind |-> "-", address |-> 0, fde |-> 0, row_address |-> 0,
     status |-> "-"]

Init ==
    /\ pc = "call"
    /\ row \in Rows
    /\ regs \in RegsSet
    /\ pre = regs
    /\ kind \in Kinds
    /\ mem \in Mems
    /\ res = IdleRes
    /\ address = regs.ip
    /\ modules = {}
    /\ cache = {}
    /\ lookup = IdleLookup
    /\ visited = {}

Step ==
    /\ pc = "call"
    /\ \E wrap \in BOOLEAN :
         \E out \in {frame_step(row, regs, kind, mem, wrap)} :
              /\ res' = out
              /\ regs' = out.regs
    /\ pre' = regs
    /\ pc' = "done"
    /\ UNCHANGED <<row, kind, mem, address, modules, cache, lookup, visited>>

Next == Step

Spec == Init /\ [][Next]_vars

-----------------------------------------------------------------------------
(* Properties of one frame step (specification Spec).                      *)

Computed == pc = "done" /\ res.cfa.some /\ res.retaddr.some

\* C1: whenever the CFA computed for the step equals the stack pointer before
\* the step and the computed return address equals the instruction pointer
\* before the step, the step fails with DidNotAdvance (leaf or return-address
\* frame, compact or full-evaluation path).
C1_NoProgressFails ==
    (Computed /\ res.cfa.val = pre.sp /\ res.retaddr.val = pre.ip)
        => (res.tag = "Err" /\ res.err = "DidNotAdvance")

C1_Witness ==
    /\ Computed /\ res.path = "fallback"
    /\ res.cfa.val = pre.sp /\ res.retaddr.val = pre.ip
    /\ res.err = "DidNotAdvance"

C3_RoundTrip ==
    (pc = "done" /\ res.path = "compact") =>
        \A wrap \in BOOLEAN :
            LET f == full_evaluation(row, pre, kind, mem, wrap)
            IN  (res.tag = "Ok" \/ f.tag = "Ok") => (f.tag = res.tag /\ f.regs = res.regs)

\* C5: a read_mem failure while the frame-pointer rule or the return-address
\* rule is resolved, or while the return address is read from CFA - 8, makes
\* the step return an error, never a return address.
C5_ReadFailurePropagated ==
    (pc = "done" /\ (res.bp_read_failed \/ res.ra_read_failed \/ res.slot_read_failed))
        => res.tag # "Ok"

\* the frame-pointer-chain row: CFA = RBP + 16, RBP at CFA - 16, RA at CFA - 8
IsFpChainRow(u) ==
    /\ u.cfa = RegisterAndOffset("RBP", 16)
    /\ u.bp = Offset(-16)
    /\ u.ra \in {Undefined, Offset(-8)}

C8_Input(m) ==
    /\ pc = "done" /\ IsFpChainRow(row)
    /\ pre = [ip |-> 8192, sp |-> 12288, bp |-> 12304]
    /\ mem = m

\* C8 as stated: with memory [0x3018] = 0x2100 and [0x3000] = 0x3050 only, the
\* frame-pointer-chain step from {ip 0x2000, sp 0x3000, fp 0x3010} succeeds
\* with {ip 0x2100, sp 0x3020, fp 0x3050}.
C8_AsStated ==
    C8_Input(MemChainAt3000) =>
        (res.tag = "Ok" /\ regs = [ip |-> 8448, sp |-> 12320, bp |-> 12368])

\* C8 amended: the saved frame pointer lives at CFA - 16 = 0x3010; with
\* memory [0x3018] = 0x2100 and [0x3010] = 0x3050 only, the step succeeds
\* with {ip 0x2100, sp 0x3020, fp 0x3050} and returns 0x2100.
C8_FpChainStep ==
    C8_Input(MemChainAt3010) =>
        (res.tag = "Ok" /\ res.ra = 8448
            /\ regs = [ip |-> 8448, sp |-> 12320, bp |-> 12368])

C8_Witness == C8_Input(MemChainAt3010) /\ res.tag = "Ok" /\ kind = "ReturnAddress"

\* whether the spec's rule declares CFA = RSP + offset (with frame-pointer
\* rule bp_rule) not representable
NotRepresentable(offset, bp_rule) ==
    \/ offset % 8 # 0
    \/ ~FitsU16(TruncDiv(offset, 8))
    \/ /\ bp_rule.kind = "Offset"
       /\ \/ (offset + bp_rule.offset) % 8 # 0
          \/ ~FitsI8(TruncDiv(offset + bp_rule.offset, 8))

\* C9: with CFA = RSP + offset, an offset (or offset + fp_offset when the frame
\* pointer is restored) that is no multiple of 8, or whose slot count does not
\* fit u16 (i8 for the frame-pointer slot), yields no compact rule, and the
\* step takes the full-evaluation path.
C9_NotRepresentable ==
    (/\ pc = "done"
     /\ row.cfa.kind = "RegisterAndOffset" /\ row.cfa.register = "RSP"
     /\ NotRepresentable(row.cfa.offset, row.bp))
        => (~translate_into_unwind_rule(row.cfa, row.bp, row.ra).ok
                /\ res.path = "fallback")

\* C10: a frame step never evaluates CFA - 8 with CFA < 8, and never aborts
\* on arithmetic overflow.
C10_NoUnderflow == pc = "done" => (~res.underflow /\ res.tag # "Panic")

-----------------------------------------------------------------------------
(* Frame-description lookup (DwarfUnwinder).  A module's CFI content is a  *)
(* sequence of FDEs [start, end, rows], rows a sequence of [start, end,    *)
(* row]; an FDE "offset" is its index in the sequence, 0 for none.         *)

\* A module's content names the rows of its two adjacent functions:
\* the first covers [start, start + 16) with a prologue row on its first four
\* bytes, the second covers [start + 16, start + 32).
PrologueRow == [cfa |-> RegisterAndOffset("RSP", 8), bp |-> Undefined, ra |-> Undefined]

Fdes(module) ==
    << [start |-> module.start, end |-> module.start + 16,
        rows |-> << [start |-> module.start, end |-> module.start + 4,
                     row |-> PrologueRow],
                    [start |-> module.start + 4, end |-> module.start + 16,
                     row |-> module.content.first] >>],
       [start |-> module.start + 16, end |-> module.start + 32,
        rows |-> << [start |-> module.start + 16, end |-> module.start + 32,
                     row |-> module.content.second] >>] >>

\* eh_frame_hdr table lookup: the FDE with the greatest start <= address
get_fde_offset_for_address(fdes, a) ==
    LET below == {i \in 1..Len(fdes) : fdes[i].start <= a}
    IN  IF below = {} THEN 0
        ELSE CHOOSE i \in below : \A j \in below : fdes[j].start <= fdes[i].start

\* fde.unwind_info_for_address: index of the row covering the address, 0 when
\* the FDE has no row for it
unwind_info_for_address(fde, a) ==
    LET hit == {i \in 1..Len(fde.rows) : fde.rows[i].start <= a /\ a < fde.rows[i].end}
    IN  IF hit = {} THEN 0 ELSE CHOOSE i \in hit : TRUE

DwarfErr(r, e) == [BaseRes(r) EXCEPT !.tag = "Err", !.path = "fallback", !.err = e]

\* [result of the arch's unwind step, the address the row was selected with]
unwind_first_with_fde(fdes, r, pc_address, fde_offset, m, wrap) ==
    LET fde == fdes[fde_offset]
        i == unwind_info_for_address(fde, pc_address)
    IN  [row_address |-> pc_address,
         out |-> IF i = 0 THEN DwarfErr(r, "UnwindInfoForAddressFailed")
                 ELSE unwind_frame(fde.rows[i].row, r, "InstructionPointer", m, wrap)]

\* a slip: the row is selected with the unadjusted return address
unwind_next_with_fde_unadjusted(fdes, r, return_address, fde_offset, m, wrap) ==
    LET fde == fdes[fde_offset]
        i == unwind_info_for_address(fde, return_address)
    IN  [row_address |-> return_address,
         out |-> IF i = 0 THEN DwarfErr(r, "UnwindInfoForAddressFailed")
                 ELSE unwind_frame(fde.rows[i].row, r, "ReturnAddress", m, wrap)]

unwind_next_with_fde(fdes, r, return_address, fde_offset, m, wrap) ==
    LET fde == fdes[fde_offset]
        i == unwind_info_for_address(fde, return_address - 1)
    IN  [row_address |-> return_address - 1,
         out |-> IF return_address = 0 /\ ~wrap
                 THEN [BaseRes(r) EXCEPT !.tag = "Panic", !.underflow = TRUE]
                 ELSE IF i = 0 THEN DwarfErr(r, "UnwindInfoForAddressFailed")
                 ELSE unwind_frame(fde.rows[i].row, r, "ReturnAddress", m, wrap)]

-----------------------------------------------------------------------------
(* The engine behind the Unwinder trait: module registry, rule cache, and  *)
(* the per-frame orchestration.                                            *)

CacheCapacity == 3

\* the address used for module and CFI lookup
lookup_address_of(a, address_kind) ==
    IF address_kind = "ReturnAddress" THEN a - 1 ELSE a

find_module(mods, a) ==
    {md \in mods : md.start <= a /\ a < md.start + md.len}

cache_lookup(cch, start, offset) ==
    {e \in cch : e.start = start /\ e.offset = offset}

cache_insert(cch, start, offset, rule) ==
    IF Cardinality(cch) < CacheCapacity /\ cache_lookup(cch, start, offset) = {}
    THEN cch \cup {[start |-> start, offset |-> offset, rule |-> rule]}
    ELSE cch

\* lookup: the frame's address and tag, the lookup address, the FDE selected
\* (0: none), the address its row was selected with, and how the lookup ended
EngineOut(out, cch, sel, fde, ra, status) ==
    [res |-> out, cache |-> cch,
     lookup |-> [frame |-> sel.frame, kind |-> sel.kind, address |-> sel.address,
                 fde |-> fde, row_address |-> ra, status |-> status]]

engine_unwind_frame(mods, cch, a, address_kind, r, m, wrap) ==
    LET la == lookup_address_of(a, address_kind)
        sel == [frame |-> a, kind |-> address_kind, address |-> la]
        found == find_module(mods, la)
        module == CHOOSE md \in found : TRUE
        offset == la - module.start
        hit == cache_lookup(cch, module.start, offset)
        fdes == Fdes(module)
        fde_offset == get_fde_offset_for_address(fdes, la)
        u == IF address_kind = "InstructionPointer"
             THEN unwind_first_with_fde(fdes, r, a, fde_offset, m, wrap)
             ELSE unwind_next_with_fde(fdes, r, a, fde_offset, m, wrap)
    IN  IF found = {}
        THEN EngineOut(DwarfErr(r, "ModuleNotFound"), cch, sel, 0, la, "no_module")
        ELSE IF hit # {}
        THEN EngineOut([exec_rule((CHOOSE e \in hit : TRUE).rule, r, address_kind, m)
                            EXCEPT !.path = "cached"],
                       cch, sel, 0, la, "cached")
        ELSE IF fde_offset = 0
        THEN EngineOut(DwarfErr(r, "NoFdeForAddress"), cch, sel, 0, la, "no_fde")
        ELSE IF u.out.tag = "ExecRule"
        THEN EngineOut(exec_rule(u.out.rule, r, address_kind, m),
                       cache_insert(cch, module.start, offset, u.out.rule),
                       sel, fde_offset, u.row_address, "row")
        ELSE EngineOut(u.out, cch, sel, fde_offset, u.row_address,
                       IF u.out.err = "UnwindInfoForAddressFailed" THEN "no_row"
                       ELSE "row")

-----------------------------------------------------------------------------
(* Specification WalkSpec: a caller walks a stack over a fixed module and  *)
(* a fixed memory, feeding each returned address back in as a              *)
(* return-address frame.                                                   *)

WalkRows ==
    { [cfa |-> RegisterAndOffset("RSP", 0), bp |-> Undefined, ra |-> Offset(-16)],
      [cfa |-> RegisterAndOffset("RSP", 0), bp |-> Undefined, ra |-> Offset(-24)],
      [cfa |-> RegisterAndOffset("RSP", 8), bp |-> Undefined, ra |-> Undefined],
      [cfa |-> RegisterAndOffset("RSP", 16), bp |-> Offset(-16), ra |-> Undefined],
      [cfa |-> RegisterAndOffset("RBP", 16), bp |-> Offset(-16), ra |-> Offset(-8)] }

WalkContents == [first : WalkRows, second : WalkRows]

\* code: 0x1000 = 4096, 0x1008 = 4104, 0x1010 = 4112, 0x1018 = 4120
\* stack: 0x2FE8 = 12264 ... 0x3018 = 12312
WalkMemCycle ==
    [a \in {12264, 12272, 12280} |->
        CASE a = 12264 -> 4104
          [] a = 12272 -> 4120
          [] a = 12280 -> 4112]
WalkMemStack ==
    [a \in {12288, 12296, 12304, 12312} |->
        CASE a = 12288 -> 4112
          [] a = 12296 -> 4104
          [] a = 12304 -> 12304
          [] a = 12312 -> 4120]
WalkMemChain ==
    [a \in {12280, 12288, 12296, 12304, 12312} |->
        CASE a = 12280 -> 4120
          [] a = 12288 -> 12304
          [] a = 12296 -> 4112
          [] a = 12304 -> 0
          [] a = 12312 -> 4104]
WalkMems == {WalkMemCycle, WalkMemStack, WalkMemChain}

WalkRegs == [ip : {4104, 4112, 4120}, sp : {12288}, bp : {12288, 12304}]

WalkInit ==
    /\ pc = "walk"
    /\ row = PrologueRow
    /\ regs \in WalkRegs
    /\ pre = regs
    /\ kind = "InstructionPointer"
    /\ address = regs.ip
    /\ mem \in WalkMems
    /\ res = IdleRes
    /\ modules \in {{[start |-> 4096, len |-> 32, content |-> c]} : c \in WalkContents}
    /\ cache = {}
    /\ lookup = IdleLookup
    /\ visited = {}

WalkStep ==
    /\ pc = "walk"
    /\ \E wrap \in BOOLEAN :
         \E e \in {engine_unwind_frame(modules, cache, address, kind, regs, mem, wrap)} :
              /\ res' = e.res
              /\ cache' = e.cache
              /\ lookup' = e.lookup
              /\ regs' = e.res.regs
              /\ IF e.res.tag = "Ok"
                 THEN /\ address' = e.res.ra
                      /\ kind' = "ReturnAddress"
                      /\ pc' = "walk"
                 ELSE /\ pc' = "stopped"
                      /\ UNCHANGED <<address, kind>>
    /\ pre' = regs
    /\ visited' = visited \cup {<<regs, address, kind>>}
    /\ UNCHANGED <<row, mem, modules>>

WalkNext == WalkStep

WalkSpec == WalkInit /\ [][WalkNext]_vars

\* C4: a walk reaches a terminal outcome after finitely many steps.  A step is
\* a function of the caller state <<regs, address, kind>>, the modules and the
\* memory, so a walk ends iff it never comes back to a caller state it has
\* already stepped from.
C4_WalkTerminates == pc = "walk" => <<regs, address, kind>> \notin visited

\* C7: a return-address frame selects its unwind-table row with address - 1
\* and a leaf frame with the address itself; with the first function covering
\* [0x1000, 0x1010), the return address 0x1010 is resolved with the first
\* function's FDE at 0x100F, and the leaf address 0x1010 with the next one.
C7_LookupAdjustment ==
    lookup.status \in {"row", "no_row"} =>
        /\ lookup.kind = "ReturnAddress" => lookup.row_address = lookup.frame - 1
        /\ lookup.kind = "InstructionPointer" => lookup.row_address = lookup.frame
        /\ (lookup.kind = "ReturnAddress" /\ lookup.frame = 4112)
              => (lookup.fde = 1 /\ lookup.status = "row")
        /\ (lookup.kind = "InstructionPointer" /\ lookup.frame = 4112)
              => (lookup.fde = 2 /\ lookup.status = "row")

C7_Witness ==
    /\ lookup.kind = "ReturnAddress" /\ lookup.frame = 4112
    /\ lookup.fde = 1 /\ lookup.row_address = 4111 /\ lookup.status = "row"

-----------------------------------------------------------------------------
(* Specification ModSpec: modules are added and removed between unwinds    *)
(* that share one cache object.                                            *)

ModContents ==
    { [first |-> [cfa |-> RegisterAndOffset("RSP", 8), bp |-> Undefined,
                  ra |-> Undefined],
       second |-> [cfa |-> RegisterAndOffset("RSP", 16), bp |-> Offset(-16),
                   ra |-> Undefined]],
      [first |-> [cfa |-> RegisterAndOffset("RSP", 16), bp |-> Undefined,
                  ra |-> Undefined],
       second |-> [cfa |-> RegisterAndOffset("RSP", 0), bp |-> Undefined,
                   ra |-> Offset(-16)]] }

ModModules ==
    {[start |-> 4096, len |-> 32, content |-> c] : c \in ModContents}
        \cup {[start |-> 4128, len |-> 32,
               content |-> [first |-> PrologueRow, second |-> PrologueRow]]}

ModAddresses == {4104, 4113, 4120, 4136}

ModRegs == [ip : {4104}, sp : {12288}, bp : {12304}]

ModInit ==
    /\ pc = "idle"
    /\ row = PrologueRow
    /\ regs \in ModRegs
    /\ pre = regs
    /\ kind = "InstructionPointer"
    /\ address = regs.ip
    /\ mem = WalkMemStack
    /\ res = IdleRes
    /\ modules = {}
    /\ cache = {}
    /\ lookup = IdleLookup
    /\ visited = {}

\* add_module; the caller adds no module overlapping a registered one
add_module(md) ==
    /\ \A other \in modules :
          md.start + md.len <= other.start \/ other.start + other.len <= md.start
    /\ modules' = modules \cup {md}
    /\ pc' = "idle"
    /\ UNCHANGED <<row, regs, pre, kind, mem, res, address, cache, lookup, visited>>

\* remove_module(module_address_range_start): no access to the cache object
remove_module(module_address_range_start) ==
    /\ modules' = {md \in modules : md.start # module_address_range_start}
    /\ pc' = "idle"
    /\ UNCHANGED <<row, regs, pre, kind, mem, res, address, cache, lookup, visited>>

\* Unwinder::unwind_frame(address, regs, cache, read_mem)
unwinder_unwind_frame(a, address_kind, r) ==
    /\ \E wrap \in BOOLEAN :
         \E e \in {engine_unwind_frame(modules, cache, a, address_kind, r, mem, wrap)} :
              /\ res' = e.res
              /\ cache' = e.cache
              /\ lookup' = e.lookup
              /\ regs' = e.res.regs
    /\ pre' = r
    /\ address' = a
    /\ kind' = address_kind
    /\ pc' = "unwound"
    /\ UNCHANGED <<row, mem, modules, visited>>

ModNext ==
    \/ \E md \in ModModules : add_module(md)
    \/ \E s \in {4096, 4128} : remove_module(s)
    \/ \E a \in ModAddresses, k \in Kinds, r \in ModRegs : unwinder_unwind_frame(a, k, r)

ModSpec == ModInit /\ [][ModNext]_vars

\* the compact rule the module's own CFI yields for a lookup address
module_rule(md, la) ==
    LET fdes == Fdes(md)
        f == get_fde_offset_for_address(fdes, la)
        i == IF f = 0 THEN 0 ELSE unwind_info_for_address(fdes[f], la)
        u == fdes[f].rows[i].row
    IN  IF i = 0 THEN RuleErr("-") ELSE translate_into_unwind_rule(u.cfa, u.bp, u.ra)

\* C6: an unwind for an address in no registered module fails with
\* module-not-found, and a rule applied from the cache is the rule of the
\* module registered at that range now, never one cached for a module that
\* was removed.
C6_NoStaleRule ==
    pc = "unwound" =>
        /\ find_module(modules, lookup.address) = {}
              => (res.tag = "Err" /\ res.err = "ModuleNotFound")
        /\ lookup.status = "cached"
              => \E md \in find_module(modules, lookup.address) :
                    /\ module_rule(md, lookup.address).ok
                    /\ module_rule(md, lookup.address).rule = res.rule

====
